---- MODULE Spec2Model ----
(***************************************************************************)
(* Model of the on-chain accounting modules of zenith:                     *)
(*   zenith::vault_core        (move/sources/vault_core.move)              *)
(*   zenith::funding_arbitrage (move/sources/funding_arbitrage.move)       *)
(*                                                                         *)
(* Every entry function is one action.  A handler is translated statement  *)
(* by statement into an operator that threads a "world" record through the *)
(* assignments of the function and stops at the first abort, returning the *)
(* abort code together with the world as it was at the abort point.  The   *)
(* action then commits the world of a successful run and discards the      *)
(* world of an aborted one, which is what the Move VM does with the write  *)
(* set of an aborted transaction.                                          *)
(*                                                                         *)
(* Resources live under accounts.  VaultRegistry, VaultEventHandle,        *)
(* ArbRegistry and ArbEventHandle are published by init_module under the   *)
(* module publisher; create_vault borrows the registry at the caller's own *)
(* address, so vaults exist only under the publisher, one per coin type.   *)
(* Calls that name any other vault_addr abort with MISSING_DATA before     *)
(* touching anything and are not enumerated.                               *)
(*                                                                         *)
(* u64 arithmetic is checked in Move: an overflow, an underflow or a       *)
(* division by zero aborts the transaction.  U64Max stands for 2^64 - 1.   *)
(*                                                                         *)
(* The event handles are modelled by `emitted`, the events appended by the *)
(* last transaction; the log is the concatenation of `emitted` over a run. *)
(* `last` names the last transaction that succeeded.  A call that aborts   *)
(* is no step: its outcome is read off the handler operator in the state   *)
(* where it is issued.                                                     *)
(***************************************************************************)
EXTENDS Integers, Sequences, FiniteSets, TLC

\* ------------------------------------------------------------------ bounds
U64Max == 2000000000
MaxTime == 1
MaxSteps == 5

\* ------------------------------------------------------------ input sets
Publisher == "owner"
Addrs == {"owner", "alice"}
CoinTypes == {"APT", "USDC"}

Amounts == {0, 1, 2, U64Max}
ShareArgs == {0, 1, 2}
Profits == {0, 1, 2}
Prices == {100}
Confidences == {0, 1}

STRATEGY_CLMM == 1
STRATEGY_DELTA_NEUTRAL == 2
STRATEGY_ARBITRAGE == 3
STRATEGY_FUNDING_RATE_ARB == 4

BPS == 10000
SECONDS_PER_DAY == 86400
MIN_FUNDING_RATE == 10

Markets == {"APT-PERP"}
\* open_arb_position arguments that are enumerated
OpenArgs ==
  { [funding_rate |-> 5, size |-> 1, collateral |-> 1],
    [funding_rate |-> 10, size |-> 1, collateral |-> 1],
    [funding_rate |-> 10000, size |-> 86400, collateral |-> U64Max],
    [funding_rate |-> 10, size |-> U64Max, collateral |-> 1] }
OpportunityRates == {5, 10}
PredictedProfits == {7}
ExitPrices == {90, 110}
PositionIndices == {0, 1, 2}

PRICE_SCALE == 1000000
\* place_limit_order arguments that are enumerated
PlaceArgs ==
  { [amount_in |-> 1, trigger_price |-> 1000000, expiry |-> 1],
    [amount_in |-> 1, trigger_price |-> 2000000, expiry |-> 2],
    [amount_in |-> U64Max, trigger_price |-> 2000000, expiry |-> 2] }
CurrentPrices == {1000000, 2000000}
\* create_twap_order arguments that are enumerated
TwapArgs ==
  { [total_amount |-> 2, intervals |-> 2, interval_seconds |-> 0],
    [total_amount |-> 1, intervals |-> 1, interval_seconds |-> 1],
    [total_amount |-> 1, intervals |-> 2, interval_seconds |-> 0],
    [total_amount |-> 2, intervals |-> 0, interval_seconds |-> 0] }
OrderIndices == {0, 1, 2}

\* update_vault_params arguments that are enumerated
ParamChoices ==
  { [rebalance_interval |-> 1, target_leverage |-> 10000, max_slippage |-> 50],
    [rebalance_interval |-> 0, target_leverage |-> 20000, max_slippage |-> 100] }

\* create_vault<CoinType> calls that are enumerated
CreateArgs ==
  { [coin |-> "APT",
     cfg |-> [strategy_type |-> STRATEGY_CLMM, performance_fee |-> 5000,
              management_fee |-> 200, rebalance_interval |-> 1,
              target_leverage |-> 10000, max_slippage |-> 50]],
    [coin |-> "APT",
     cfg |-> [strategy_type |-> STRATEGY_ARBITRAGE, performance_fee |-> 0,
              management_fee |-> 200, rebalance_interval |-> 1,
              target_leverage |-> 10000, max_slippage |-> 50]],
    [coin |-> "USDC",
     cfg |-> [strategy_type |-> STRATEGY_FUNDING_RATE_ARB, performance_fee |-> 20000,
              management_fee |-> 0, rebalance_interval |-> 0,
              target_leverage |-> 20000, max_slippage |-> 100]] }

\* ---------------------------------------------------------------- status
OK == "OK"
E_NOT_AUTHORIZED == "E_NOT_AUTHORIZED"
E_INSUFFICIENT_BALANCE == "E_INSUFFICIENT_BALANCE"
E_INVALID_AMOUNT == "E_INVALID_AMOUNT"
E_VAULT_PAUSED == "E_VAULT_PAUSED"
E_PRICE_STALE == "E_PRICE_STALE"
E_REBALANCE_TOO_SOON == "E_REBALANCE_TOO_SOON"
ARITHMETIC_ERROR == "ARITHMETIC_ERROR"
MISSING_DATA == "MISSING_DATA"
RESOURCE_ALREADY_EXISTS == "RESOURCE_ALREADY_EXISTS"
E_INVALID_FUNDING_RATE == "E_INVALID_FUNDING_RATE"
E_POSITION_NOT_FOUND == "E_POSITION_NOT_FOUND"
E_ORDER_NOT_FOUND == "E_ORDER_NOT_FOUND"
INDEX_OUT_OF_BOUNDS == "INDEX_OUT_OF_BOUNDS"

VARIABLES registry, vaults, positions, arbRegistry, arbStates, limitBook, twapBook,
          now, last, emitted, steps

vaultVars == <<registry, vaults, positions>>
arbVars == <<arbRegistry, arbStates>>
hookVars == <<limitBook, twapBook>>
vars == <<registry, vaults, positions, arbRegistry, arbStates, limitBook, twapBook,
          now, last, emitted, steps>>

\* checked u64 arithmetic: the operation aborts when the result leaves 0..U64Max
AddOverflows(a, b) == a > U64Max - b
MulOverflows(a, b) == b # 0 /\ a > U64Max \div b

\* the resources of vault_core as one record, threaded through a handler
World == [registry |-> registry, vaults |-> vaults, positions |-> positions, events |-> <<>>]

Abort(w, code) == [status |-> code, w |-> w]
Done(w) == [status |-> OK, w |-> w]

NoCall == [op |-> "init", caller |-> Publisher, coin |-> "APT", arg |-> 0]

Init ==
  /\ registry = [next_vault_id |-> 1, vault_count |-> 0]
  /\ vaults = <<>>
  /\ positions = <<>>
  /\ arbRegistry = [next_position_id |-> 1, total_volume |-> 0, total_positions |-> 0,
                    admin |-> Publisher]
  /\ arbStates = <<>>
  /\ limitBook = [orders |-> <<>>, next_order_id |-> 1]
  /\ twapBook = [orders |-> <<>>, next_order_id |-> 1]
  /\ now = 0
  /\ last = NoCall
  /\ emitted = <<>>
  /\ steps = 0

\* ------------------------------------------------------------ create_vault
\* mutant: the registry's next_vault_id is not incremented
create_vault_reuses_id(w, admin, c, cfg, t) ==
  IF admin # Publisher THEN Abort(w, MISSING_DATA)
  ELSE IF c \in DOMAIN w.vaults THEN Abort(w, RESOURCE_ALREADY_EXISTS)
  ELSE
    LET vault == [vault_id |-> w.registry.next_vault_id,
                  strategy_type |-> cfg.strategy_type,
                  total_shares |-> 0,
                  total_assets |-> 0,
                  performance_fee |-> cfg.performance_fee,
                  management_fee |-> cfg.management_fee,
                  last_harvest |-> t,
                  last_rebalance |-> t,
                  rebalance_interval |-> cfg.rebalance_interval,
                  target_leverage |-> cfg.target_leverage,
                  max_slippage |-> cfg.max_slippage,
                  paused |-> FALSE,
                  admin |-> admin]
        w1 == [w EXCEPT !.vaults = (c :> vault) @@ w.vaults]
    IN IF AddOverflows(w1.registry.vault_count, 1) THEN Abort(w1, ARITHMETIC_ERROR)
       ELSE Done([w1 EXCEPT !.registry.vault_count = @ + 1])

create_vault(w, admin, c, cfg, t) ==
  IF admin # Publisher THEN Abort(w, MISSING_DATA)
  ELSE IF c \in DOMAIN w.vaults THEN Abort(w, RESOURCE_ALREADY_EXISTS)
  ELSE
    LET vault == [vault_id |-> w.registry.next_vault_id,
                  strategy_type |-> cfg.strategy_type,
                  total_shares |-> 0,
                  total_assets |-> 0,
                  performance_fee |-> cfg.performance_fee,
                  management_fee |-> cfg.management_fee,
                  last_harvest |-> t,
                  last_rebalance |-> t,
                  rebalance_interval |-> cfg.rebalance_interval,
                  target_leverage |-> cfg.target_leverage,
                  max_slippage |-> cfg.max_slippage,
                  paused |-> FALSE,
                  admin |-> admin]
        w1 == [w EXCEPT !.vaults = (c :> vault) @@ w.vaults]
    IN IF AddOverflows(w1.registry.next_vault_id, 1) THEN Abort(w1, ARITHMETIC_ERROR)
       ELSE LET w2 == [w1 EXCEPT !.registry.next_vault_id = @ + 1]
            IN IF AddOverflows(w2.registry.vault_count, 1) THEN Abort(w2, ARITHMETIC_ERROR)
               ELSE Done([w2 EXCEPT !.registry.vault_count = @ + 1])

\* ----------------------------------------------------------------- deposit
\* mutant: shares are minted one per asset unit whatever the share price
deposit_shares_at_par(vault, amount) == amount

\* "Calculate shares to mint"; evaluated once the product is known to fit
deposit_shares(vault, amount) ==
  IF vault.total_shares = 0 THEN amount
  ELSE (amount * vault.total_shares) \div vault.total_assets

\* mutant: the minted shares are not added to the vault's total_shares
deposit_update_vault_assets_only(w, c, shares, amount) ==
  IF AddOverflows(w.vaults[c].total_assets, amount) THEN Abort(w, ARITHMETIC_ERROR)
  ELSE Done([w EXCEPT !.vaults[c].total_assets = @ + amount])

\* "Update vault state"
deposit_update_vault(w, c, shares, amount) ==
  IF AddOverflows(w.vaults[c].total_shares, shares) THEN Abort(w, ARITHMETIC_ERROR)
  ELSE
    LET w1 == [w EXCEPT !.vaults[c].total_shares = @ + shares] IN
    IF AddOverflows(w1.vaults[c].total_assets, amount) THEN Abort(w1, ARITHMETIC_ERROR)
    ELSE Done([w1 EXCEPT !.vaults[c].total_assets = @ + amount])

\* mutant: a top-up refreshes deposited_at
deposit_update_position_refresh(w, user, vault_id, shares, t) ==
  IF user \notin DOMAIN w.positions
  THEN Done([w EXCEPT !.positions = (user :> [vault_id |-> vault_id, shares |-> shares,
                                             deposited_at |-> t]) @@ w.positions])
  ELSE IF AddOverflows(w.positions[user].shares, shares) THEN Abort(w, ARITHMETIC_ERROR)
  ELSE Done([w EXCEPT !.positions[user].shares = @ + shares,
                      !.positions[user].deposited_at = t])

\* "Update or create user position"
deposit_update_position(w, user, vault_id, shares, t) ==
  IF user \notin DOMAIN w.positions
  THEN Done([w EXCEPT !.positions = (user :> [vault_id |-> vault_id, shares |-> shares,
                                             deposited_at |-> t]) @@ w.positions])
  ELSE IF AddOverflows(w.positions[user].shares, shares) THEN Abort(w, ARITHMETIC_ERROR)
  ELSE Done([w EXCEPT !.positions[user].shares = @ + shares])

\* the body of deposit after its two assertions
deposit_mint(w, user, c, amount, t) ==
  LET vault == w.vaults[c] IN
  IF vault.total_shares # 0 /\ MulOverflows(amount, vault.total_shares)
    THEN Abort(w, ARITHMETIC_ERROR)
  ELSE IF vault.total_shares # 0 /\ vault.total_assets = 0
    THEN Abort(w, ARITHMETIC_ERROR)
  ELSE
    LET shares == deposit_shares(vault, amount)
        r1 == deposit_update_vault(w, c, shares, amount)
    IN
    IF r1.status # OK THEN r1
    ELSE
      LET r2 == deposit_update_position(r1.w, user, vault.vault_id, shares, t) IN
      IF r2.status # OK THEN r2
      ELSE Done([r2.w EXCEPT !.events =
                   Append(@, [type |-> "Deposit", vault_id |-> vault.vault_id,
                              user |-> user, amount |-> amount, shares |-> shares,
                              timestamp |-> t])])

\* mutant: the pause check is missing
deposit_ungated(w, user, c, amount, t) ==
  IF ~(amount > 0) THEN Abort(w, E_INVALID_AMOUNT)
  ELSE IF c \notin DOMAIN w.vaults THEN Abort(w, MISSING_DATA)
  ELSE deposit_mint(w, user, c, amount, t)

\* mutant: the pause check runs after the shares have been minted
deposit_check_late(w, user, c, amount, t) ==
  IF ~(amount > 0) THEN Abort(w, E_INVALID_AMOUNT)
  ELSE IF c \notin DOMAIN w.vaults THEN Abort(w, MISSING_DATA)
  ELSE LET r == deposit_mint(w, user, c, amount, t) IN
       IF r.status = OK /\ w.vaults[c].paused THEN Abort(r.w, E_VAULT_PAUSED) ELSE r

deposit(w, user, c, amount, t) ==
  IF ~(amount > 0) THEN Abort(w, E_INVALID_AMOUNT)
  ELSE IF c \notin DOMAIN w.vaults THEN Abort(w, MISSING_DATA)
  ELSE IF w.vaults[c].paused THEN Abort(w, E_VAULT_PAUSED)
  ELSE deposit_mint(w, user, c, amount, t)

\* ---------------------------------------------------------------- withdraw
\* mutant: a withdrawal pays out all the assets of the vault
withdraw_amount_all(vault, shares) == vault.total_assets

\* mutant: the amount paid is rounded up
withdraw_amount_ceil(vault, shares) ==
  (shares * vault.total_assets) \div vault.total_shares
    + (IF (shares * vault.total_assets) % vault.total_shares = 0 THEN 0 ELSE 1)

\* "Calculate amount to withdraw"; evaluated once the product is known to fit
withdraw_amount(vault, shares) == (shares * vault.total_assets) \div vault.total_shares

\* the body of withdraw after its two assertions
withdraw_redeem(w, user, c, shares, t) ==
  IF c \notin DOMAIN w.vaults THEN Abort(w, MISSING_DATA)
  ELSE
    LET vault == w.vaults[c] IN
    IF MulOverflows(shares, vault.total_assets) THEN Abort(w, ARITHMETIC_ERROR)
    ELSE IF vault.total_shares = 0 THEN Abort(w, ARITHMETIC_ERROR)
    ELSE
      LET amount == withdraw_amount(vault, shares) IN
      IF vault.total_shares < shares THEN Abort(w, ARITHMETIC_ERROR)
      ELSE
        LET w1 == [w EXCEPT !.vaults[c].total_shares = @ - shares] IN
        IF vault.total_assets < amount THEN Abort(w1, ARITHMETIC_ERROR)
        ELSE
          LET w2 == [w1 EXCEPT !.vaults[c].total_assets = @ - amount]
              ev == [type |-> "Withdraw", vault_id |-> vault.vault_id, user |-> user,
                     amount |-> amount, shares |-> shares, timestamp |-> t]
          IN Done([w2 EXCEPT !.positions[user].shares = @ - shares,
                             !.events = Append(@, ev)])

withdraw(w, user, c, shares, t) ==
  IF user \notin DOMAIN w.positions THEN Abort(w, E_INSUFFICIENT_BALANCE)
  ELSE IF ~(w.positions[user].shares >= shares) THEN Abort(w, E_INSUFFICIENT_BALANCE)
  ELSE withdraw_redeem(w, user, c, shares, t)

\* ------------------------------------------------ calculate_withdraw_amount
\* mutant: the preview divides without looking at total_shares
calculate_withdraw_amount_unguarded(w, c, shares) ==
  IF c \notin DOMAIN w.vaults THEN [status |-> MISSING_DATA, value |-> 0]
  ELSE
    LET vault == w.vaults[c] IN
    IF MulOverflows(shares, vault.total_assets)
      THEN [status |-> ARITHMETIC_ERROR, value |-> 0]
    ELSE IF vault.total_shares = 0 THEN [status |-> ARITHMETIC_ERROR, value |-> 0]
    ELSE [status |-> OK, value |-> (shares * vault.total_assets) \div vault.total_shares]

\* the view returns a value or aborts; it writes nothing
calculate_withdraw_amount(w, c, shares) ==
  IF c \notin DOMAIN w.vaults THEN [status |-> MISSING_DATA, value |-> 0]
  ELSE
    LET vault == w.vaults[c] IN
    IF vault.total_shares = 0 THEN [status |-> OK, value |-> 0]
    ELSE IF MulOverflows(shares, vault.total_assets)
      THEN [status |-> ARITHMETIC_ERROR, value |-> 0]
    ELSE [status |-> OK, value |-> (shares * vault.total_assets) \div vault.total_shares]

\* ----------------------------------------------------------------- harvest
\* mutant: the fee is rounded up
harvest_fee_ceil(vault, profit) == (profit * vault.performance_fee + BPS - 1) \div BPS

\* "Apply performance fee"; evaluated once the product is known to fit
harvest_fee(vault, profit) == (profit * vault.performance_fee) \div BPS

\* mutant: last_harvest is not updated
harvest_keeps_last_harvest(w, admin, c, profit, t) ==
  IF c \notin DOMAIN w.vaults THEN Abort(w, MISSING_DATA)
  ELSE
    LET vault == w.vaults[c] IN
    IF ~(admin = vault.admin) THEN Abort(w, E_NOT_AUTHORIZED)
    ELSE IF MulOverflows(profit, vault.performance_fee) THEN Abort(w, ARITHMETIC_ERROR)
    ELSE
      LET fee == harvest_fee(vault, profit) IN
      IF profit < fee THEN Abort(w, ARITHMETIC_ERROR)
      ELSE
        LET net_profit == profit - fee IN
        IF AddOverflows(vault.total_assets, net_profit) THEN Abort(w, ARITHMETIC_ERROR)
        ELSE
          LET ev == [type |-> "Harvest", vault_id |-> vault.vault_id,
                     profit |-> net_profit, timestamp |-> t]
          IN Done([w EXCEPT !.vaults[c].total_assets = @ + net_profit,
                            !.events = Append(@, ev)])

\* mutant: a fee above the profit is capped at the profit
harvest_fee_capped(w, admin, c, profit, t) ==
  IF c \notin DOMAIN w.vaults THEN Abort(w, MISSING_DATA)
  ELSE
    LET vault == w.vaults[c] IN
    IF ~(admin = vault.admin) THEN Abort(w, E_NOT_AUTHORIZED)
    ELSE IF MulOverflows(profit, vault.performance_fee) THEN Abort(w, ARITHMETIC_ERROR)
    ELSE
      LET fee == harvest_fee(vault, profit)
          net_profit == IF profit < fee THEN 0 ELSE profit - fee
      IN
      IF AddOverflows(vault.total_assets, net_profit) THEN Abort(w, ARITHMETIC_ERROR)
      ELSE
        LET ev == [type |-> "Harvest", vault_id |-> vault.vault_id,
                   profit |-> net_profit, timestamp |-> t]
        IN Done([w EXCEPT !.vaults[c].total_assets = @ + net_profit,
                          !.vaults[c].last_harvest = t,
                          !.events = Append(@, ev)])

harvest(w, admin, c, profit, t) ==
  IF c \notin DOMAIN w.vaults THEN Abort(w, MISSING_DATA)
  ELSE
    LET vault == w.vaults[c] IN
    IF ~(admin = vault.admin) THEN Abort(w, E_NOT_AUTHORIZED)
    ELSE IF MulOverflows(profit, vault.performance_fee) THEN Abort(w, ARITHMETIC_ERROR)
    ELSE
      LET fee == harvest_fee(vault, profit) IN
      IF profit < fee THEN Abort(w, ARITHMETIC_ERROR)
      ELSE
        LET net_profit == profit - fee IN
        IF AddOverflows(vault.total_assets, net_profit) THEN Abort(w, ARITHMETIC_ERROR)
        ELSE
          LET ev == [type |-> "Harvest", vault_id |-> vault.vault_id,
                     profit |-> net_profit, timestamp |-> t]
          IN Done([w EXCEPT !.vaults[c].total_assets = @ + net_profit,
                            !.vaults[c].last_harvest = t,
                            !.events = Append(@, ev)])

\* ------------------------------------------------- pause_vault / unpause_vault
\* mutant: the admin check is missing
pause_vault_any_caller(w, admin, c) ==
  IF c \notin DOMAIN w.vaults THEN Abort(w, MISSING_DATA)
  ELSE Done([w EXCEPT !.vaults[c].paused = TRUE])

pause_vault(w, admin, c) ==
  IF c \notin DOMAIN w.vaults THEN Abort(w, MISSING_DATA)
  ELSE IF ~(admin = w.vaults[c].admin) THEN Abort(w, E_NOT_AUTHORIZED)
  ELSE Done([w EXCEPT !.vaults[c].paused = TRUE])

unpause_vault(w, admin, c) ==
  IF c \notin DOMAIN w.vaults THEN Abort(w, MISSING_DATA)
  ELSE IF ~(admin = w.vaults[c].admin) THEN Abort(w, E_NOT_AUTHORIZED)
  ELSE Done([w EXCEPT !.vaults[c].paused = FALSE])

\* ------------------------------------------------------------- rebalance_vault
rebalance_vault(w, keeper, c, current_price, price_confidence, t) ==
  IF c \notin DOMAIN w.vaults THEN Abort(w, MISSING_DATA)
  ELSE
    LET vault == w.vaults[c]
        current_time == t
    IN
    IF AddOverflows(vault.last_rebalance, vault.rebalance_interval)
      THEN Abort(w, ARITHMETIC_ERROR)
    ELSE IF ~(current_time >= vault.last_rebalance + vault.rebalance_interval)
      THEN Abort(w, E_REBALANCE_TOO_SOON)
    ELSE IF ~(price_confidence > 0) THEN Abort(w, E_PRICE_STALE)
    ELSE
      LET w1 == IF vault.strategy_type = STRATEGY_CLMM
                  THEN [w EXCEPT !.vaults[c].last_rebalance = current_time]
                ELSE IF vault.strategy_type = STRATEGY_DELTA_NEUTRAL
                  THEN [w EXCEPT !.vaults[c].last_rebalance = current_time]
                ELSE IF vault.strategy_type = STRATEGY_FUNDING_RATE_ARB
                  THEN [w EXCEPT !.vaults[c].last_rebalance = current_time]
                ELSE w
          ev == [type |-> "Harvest", vault_id |-> vault.vault_id,
                 profit |-> 0, timestamp |-> current_time]
      IN Done([w1 EXCEPT !.events = Append(@, ev)])

\* --------------------------------------------------------- update_vault_params
update_vault_params(w, admin, c, rebalance_interval, target_leverage, max_slippage) ==
  IF c \notin DOMAIN w.vaults THEN Abort(w, MISSING_DATA)
  ELSE IF ~(admin = w.vaults[c].admin) THEN Abort(w, E_NOT_AUTHORIZED)
  ELSE Done([w EXCEPT !.vaults[c].rebalance_interval = rebalance_interval,
                      !.vaults[c].target_leverage = target_leverage,
                      !.vaults[c].max_slippage = max_slippage])

\* the Move VM commits the writes of a successful transaction only
Commit(pre, r) == IF r.status = OK THEN r.w ELSE pre

\* runs of at most MaxSteps transactions are explored
Step == steps < MaxSteps /\ steps' = steps + 1

\* a transaction that succeeds is a step; one that aborts leaves no trace
Apply(r) ==
  LET post == Commit(World, r) IN
  /\ registry' = post.registry
  /\ vaults' = post.vaults
  /\ positions' = post.positions
  /\ emitted' = post.events
  /\ now' = now
  /\ UNCHANGED <<arbVars, hookVars>>

Call(op, caller, c, arg) == [op |-> op, caller |-> caller, coin |-> c, arg |-> arg]

CreateVault ==
  \E admin \in Addrs, ca \in CreateArgs :
    LET r == create_vault(World, admin, ca.coin, ca.cfg, now) IN
    /\ r.status = OK
    /\ Step
    /\ Apply(r)
    /\ last' = Call("create_vault", admin, ca.coin, 0)

Deposit ==
  \E user \in Addrs, c \in CoinTypes, amount \in Amounts :
    LET r == deposit(World, user, c, amount, now) IN
    /\ r.status = OK
    /\ Step
    /\ Apply(r)
    /\ last' = Call("deposit", user, c, amount)

Withdraw ==
  \E user \in Addrs, c \in CoinTypes, shares \in ShareArgs :
    LET r == withdraw(World, user, c, shares, now) IN
    /\ r.status = OK
    /\ Step
    /\ Apply(r)
    /\ last' = Call("withdraw", user, c, shares)

Harvest ==
  \E admin \in Addrs, c \in CoinTypes, profit \in Profits :
    LET r == harvest(World, admin, c, profit, now) IN
    /\ r.status = OK
    /\ Step
    /\ Apply(r)
    /\ last' = Call("harvest", admin, c, profit)

PauseVault ==
  \E admin \in Addrs, c \in CoinTypes :
    LET r == pause_vault(World, admin, c) IN
    /\ r.status = OK
    /\ Step
    /\ Apply(r)
    /\ last' = Call("pause_vault", admin, c, 0)

UnpauseVault ==
  \E admin \in Addrs, c \in CoinTypes :
    LET r == unpause_vault(World, admin, c) IN
    /\ r.status = OK
    /\ Step
    /\ Apply(r)
    /\ last' = Call("unpause_vault", admin, c, 0)

RebalanceVault ==
  \E keeper \in Addrs, c \in CoinTypes, price \in Prices, conf \in Confidences :
    LET r == rebalance_vault(World, keeper, c, price, conf, now) IN
    /\ r.status = OK
    /\ Step
    /\ Apply(r)
    /\ last' = Call("rebalance_vault", keeper, c, conf)

UpdateVaultParams ==
  \E admin \in Addrs, c \in CoinTypes, p \in ParamChoices :
    LET r == update_vault_params(World, admin, c, p.rebalance_interval,
                                 p.target_leverage, p.max_slippage) IN
    /\ r.status = OK
    /\ Step
    /\ Apply(r)
    /\ last' = Call("update_vault_params", admin, c, p.rebalance_interval)

\* ======================================================= funding_arbitrage
ArbWorld == [registry |-> arbRegistry, states |-> arbStates, events |-> <<>>]

\* ------------------------------------------------------- open_arb_position
open_arb_position(w, user, market, funding_rate, size, collateral, entry_price, t) ==
  IF ~(funding_rate >= MIN_FUNDING_RATE) THEN Abort(w, E_INVALID_FUNDING_RATE)
  ELSE
    LET registry_ == w.registry
        w1 == IF user \notin DOMAIN w.states
              THEN [w EXCEPT !.states = (user :> [positions |-> <<>>,
                                                  total_collateral |-> 0,
                                                  total_profit |-> 0,
                                                  position_count |-> 0]) @@ w.states]
              ELSE w
    IN
    IF MulOverflows(size, funding_rate) THEN Abort(w1, ARITHMETIC_ERROR)
    ELSE
      LET expected_profit == (size * funding_rate) \div BPS
          position == [position_id |-> registry_.next_position_id,
                       market |-> market,
                       side |-> 1,
                       size |-> size,
                       entry_price |-> entry_price,
                       entry_timestamp |-> t,
                       funding_rate |-> funding_rate,
                       expected_profit |-> expected_profit,
                       collateral |-> collateral,
                       is_active |-> TRUE]
          w2 == [w1 EXCEPT !.states[user].positions = Append(@, position)]
      IN
      IF AddOverflows(w2.states[user].total_collateral, collateral)
        THEN Abort(w2, ARITHMETIC_ERROR)
      ELSE
        LET w3 == [w2 EXCEPT !.states[user].total_collateral = @ + collateral] IN
        IF AddOverflows(w3.states[user].position_count, 1) THEN Abort(w3, ARITHMETIC_ERROR)
        ELSE
          LET w4 == [w3 EXCEPT !.states[user].position_count = @ + 1] IN
          IF AddOverflows(w4.registry.next_position_id, 1) THEN Abort(w4, ARITHMETIC_ERROR)
          ELSE
            LET w5 == [w4 EXCEPT !.registry.next_position_id = @ + 1] IN
            IF AddOverflows(w5.registry.total_positions, 1) THEN Abort(w5, ARITHMETIC_ERROR)
            ELSE
              LET w6 == [w5 EXCEPT !.registry.total_positions = @ + 1] IN
              IF AddOverflows(w6.registry.total_volume, size) THEN Abort(w6, ARITHMETIC_ERROR)
              ELSE
                LET ev == [type |-> "PositionOpened", position_id |-> position.position_id,
                           user |-> user, market |-> position.market, size |-> size,
                           funding_rate |-> funding_rate, timestamp |-> t]
                IN Done([w6 EXCEPT !.registry.total_volume = @ + size,
                                   !.events = Append(@, ev)])

\* ------------------------------------------------------ close_arb_position
\* mutant: the price difference is added to the realized profit
close_realized_profit_with_price(position, time_held, price_diff) ==
  (position.funding_rate * position.size * time_held) \div (BPS * SECONDS_PER_DAY) + price_diff

\* "Simplified P&L calculation"; evaluated once the products are known to fit
close_realized_profit(position, time_held, price_diff) ==
  (position.funding_rate * position.size * time_held) \div (BPS * SECONDS_PER_DAY)

\* mutant: a position that is already closed can be closed again
close_arb_position_again(w, user, position_index, exit_price, t) ==
  IF user \notin DOMAIN w.states THEN Abort(w, E_POSITION_NOT_FOUND)
  ELSE
    LET user_state == w.states[user] IN
    IF ~(position_index < Len(user_state.positions)) THEN Abort(w, E_POSITION_NOT_FOUND)
    ELSE
      \* vector indices count from 0
      LET position == user_state.positions[position_index + 1] IN
      IF t < position.entry_timestamp THEN Abort(w, ARITHMETIC_ERROR)
      ELSE
        LET time_held == t - position.entry_timestamp
            price_diff == IF exit_price > position.entry_price
                          THEN exit_price - position.entry_price
                          ELSE position.entry_price - exit_price
        IN
        IF MulOverflows(position.funding_rate, position.size)
          THEN Abort(w, ARITHMETIC_ERROR)
        ELSE IF MulOverflows(position.funding_rate * position.size, time_held)
          THEN Abort(w, ARITHMETIC_ERROR)
        ELSE
          LET realized_profit == close_realized_profit(position, time_held, price_diff)
              w1 == [w EXCEPT !.states[user].positions[position_index + 1].is_active = FALSE]
          IN
          IF AddOverflows(user_state.total_profit, realized_profit)
            THEN Abort(w1, ARITHMETIC_ERROR)
          ELSE
            LET w2 == [w1 EXCEPT !.states[user].total_profit = @ + realized_profit] IN
            IF user_state.total_collateral < position.collateral
              THEN Abort(w2, ARITHMETIC_ERROR)
            ELSE
              LET ev == [type |-> "PositionClosed", position_id |-> position.position_id,
                         user |-> user, realized_profit |-> realized_profit,
                         timestamp |-> t]
              IN Done([w2 EXCEPT !.states[user].total_collateral = @ - position.collateral,
                                 !.events = Append(@, ev)])

\* mutant: the collateral of the closed position is not released
close_arb_position_keeps_collateral(w, user, position_index, exit_price, t) ==
  IF user \notin DOMAIN w.states THEN Abort(w, E_POSITION_NOT_FOUND)
  ELSE
    LET user_state == w.states[user] IN
    IF ~(position_index < Len(user_state.positions)) THEN Abort(w, E_POSITION_NOT_FOUND)
    ELSE
      \* vector indices count from 0
      LET position == user_state.positions[position_index + 1] IN
      IF ~position.is_active THEN Abort(w, E_POSITION_NOT_FOUND)
      ELSE IF t < position.entry_timestamp THEN Abort(w, ARITHMETIC_ERROR)
      ELSE
        LET time_held == t - position.entry_timestamp
            price_diff == IF exit_price > position.entry_price
                          THEN exit_price - position.entry_price
                          ELSE position.entry_price - exit_price
        IN
        IF MulOverflows(position.funding_rate, position.size)
          THEN Abort(w, ARITHMETIC_ERROR)
        ELSE IF MulOverflows(position.funding_rate * position.size, time_held)
          THEN Abort(w, ARITHMETIC_ERROR)
        ELSE
          LET realized_profit == close_realized_profit(position, time_held, price_diff)
              w1 == [w EXCEPT !.states[user].positions[position_index + 1].is_active = FALSE]
          IN
          IF AddOverflows(user_state.total_profit, realized_profit)
            THEN Abort(w1, ARITHMETIC_ERROR)
          ELSE
            LET w2 == [w1 EXCEPT !.states[user].total_profit = @ + realized_profit] IN
            IF user_state.total_collateral < position.collateral
              THEN Abort(w2, ARITHMETIC_ERROR)
            ELSE
              LET ev == [type |-> "PositionClosed", position_id |-> position.position_id,
                         user |-> user, realized_profit |-> realized_profit,
                         timestamp |-> t]
              IN Done([w2 EXCEPT !.events = Append(@, ev)])

close_arb_position(w, user, position_index, exit_price, t) ==
  IF user \notin DOMAIN w.states THEN Abort(w, E_POSITION_NOT_FOUND)
  ELSE
    LET user_state == w.states[user] IN
    IF ~(position_index < Len(user_state.positions)) THEN Abort(w, E_POSITION_NOT_FOUND)
    ELSE
      \* vector indices count from 0
      LET position == user_state.positions[position_index + 1] IN
      IF ~position.is_active THEN Abort(w, E_POSITION_NOT_FOUND)
      ELSE IF t < position.entry_timestamp THEN Abort(w, ARITHMETIC_ERROR)
      ELSE
        LET time_held == t - position.entry_timestamp
            price_diff == IF exit_price > position.entry_price
                          THEN exit_price - position.entry_price
                          ELSE position.entry_price - exit_price
        IN
        IF MulOverflows(position.funding_rate, position.size)
          THEN Abort(w, ARITHMETIC_ERROR)
        ELSE IF MulOverflows(position.funding_rate * position.size, time_held)
          THEN Abort(w, ARITHMETIC_ERROR)
        ELSE
          LET realized_profit == close_realized_profit(position, time_held, price_diff)
              w1 == [w EXCEPT !.states[user].positions[position_index + 1].is_active = FALSE]
          IN
          IF AddOverflows(user_state.total_profit, realized_profit)
            THEN Abort(w1, ARITHMETIC_ERROR)
          ELSE
            LET w2 == [w1 EXCEPT !.states[user].total_profit = @ + realized_profit] IN
            IF user_state.total_collateral < position.collateral
              THEN Abort(w2, ARITHMETIC_ERROR)
            ELSE
              LET ev == [type |-> "PositionClosed", position_id |-> position.position_id,
                         user |-> user, realized_profit |-> realized_profit,
                         timestamp |-> t]
              IN Done([w2 EXCEPT !.states[user].total_collateral = @ - position.collateral,
                                 !.events = Append(@, ev)])

\* ------------------------------------------------------ record_opportunity
\* mutant: emits whatever the funding rate is
record_opportunity_always(w, keeper, market, funding_rate, predicted_profit, t) ==
  Done([w EXCEPT !.events = Append(@, [type |-> "OpportunityFound", market |-> market,
                                       funding_rate |-> funding_rate,
                                       predicted_profit |-> predicted_profit,
                                       timestamp |-> t])])

record_opportunity(w, keeper, market, funding_rate, predicted_profit, t) ==
  IF funding_rate >= MIN_FUNDING_RATE
  THEN Done([w EXCEPT !.events = Append(@, [type |-> "OpportunityFound", market |-> market,
                                            funding_rate |-> funding_rate,
                                            predicted_profit |-> predicted_profit,
                                            timestamp |-> t])])
  ELSE Done(w)

\* mutant: the registry update of the transaction is lost
ApplyArb_registry_lost(r) ==
  LET post == Commit(ArbWorld, r) IN
  /\ arbRegistry' = arbRegistry
  /\ arbStates' = post.states
  /\ emitted' = post.events
  /\ now' = now
  /\ UNCHANGED <<vaultVars, hookVars>>

ApplyArb(r) ==
  LET post == Commit(ArbWorld, r) IN
  /\ arbRegistry' = post.registry
  /\ arbStates' = post.states
  /\ emitted' = post.events
  /\ now' = now
  /\ UNCHANGED <<vaultVars, hookVars>>

OpenArbPosition ==
  \E user \in Addrs, market \in Markets, a \in OpenArgs, entry_price \in Prices :
    LET r == open_arb_position(ArbWorld, user, market, a.funding_rate, a.size,
                               a.collateral, entry_price, now) IN
    /\ r.status = OK
    /\ Step
    /\ ApplyArb(r)
    /\ last' = Call("open_arb_position", user, market, a.funding_rate)

CloseArbPosition ==
  \E user \in Addrs, position_index \in PositionIndices, exit_price \in ExitPrices :
    LET r == close_arb_position(ArbWorld, user, position_index, exit_price, now) IN
    /\ r.status = OK
    /\ Step
    /\ ApplyArb(r)
    /\ last' = Call("close_arb_position", user, "", position_index)

RecordOpportunity ==
  \E keeper \in Addrs, market \in Markets, funding_rate \in OpportunityRates,
     predicted_profit \in PredictedProfits :
    LET r == record_opportunity(ArbWorld, keeper, market, funding_rate, predicted_profit, now) IN
    /\ r.status = OK
    /\ Step
    /\ ApplyArb(r)
    /\ last' = Call("record_opportunity", keeper, market, funding_rate)

\* ============================================================== tapp_hooks
HookWorld == [limit |-> limitBook, twap |-> twapBook, events |-> <<>>]

\* -------------------------------------------------------- place_limit_order
place_limit_order(w, user, token_in, token_out, amount_in, min_amount_out, trigger_price, expiry) ==
  LET order == [order_id |-> w.limit.next_order_id,
                user |-> user,
                token_in |-> token_in,
                token_out |-> token_out,
                amount_in |-> amount_in,
                min_amount_out |-> min_amount_out,
                trigger_price |-> trigger_price,
                expiry |-> expiry,
                filled |-> FALSE]
      w1 == [w EXCEPT !.limit.orders = Append(@, order)]
  IN IF AddOverflows(w1.limit.next_order_id, 1) THEN Abort(w1, ARITHMETIC_ERROR)
     ELSE Done([w1 EXCEPT !.limit.next_order_id = @ + 1])

\* ----------------------------------------------------- execute_limit_orders
\* "Check if order should be executed"
should_execute(order, current_price, current_time) ==
  /\ ~order.filled
  /\ current_price >= order.trigger_price
  /\ current_time < order.expiry

\* the while loop, from vector index i (counted from 0) to len
RECURSIVE execute_limit_orders_loop(_, _, _, _, _)
execute_limit_orders_loop(w, i, len, current_price, current_time) ==
  IF ~(i < len) THEN Done(w)
  ELSE
    LET order == w.limit.orders[i + 1] IN
    IF should_execute(order, current_price, current_time)
    THEN
      LET w1 == [w EXCEPT !.limit.orders[i + 1].filled = TRUE] IN
      IF MulOverflows(order.amount_in, current_price) THEN Abort(w1, ARITHMETIC_ERROR)
      ELSE
        LET amount_out == (order.amount_in * current_price) \div PRICE_SCALE
            ev == [type |-> "LimitOrderFilled", order_id |-> order.order_id,
                   user |-> order.user, amount_in |-> order.amount_in,
                   amount_out |-> amount_out, timestamp |-> current_time]
        IN execute_limit_orders_loop([w1 EXCEPT !.events = Append(@, ev)],
                                     i + 1, len, current_price, current_time)
    ELSE execute_limit_orders_loop(w, i + 1, len, current_price, current_time)

execute_limit_orders(w, executor, current_price, t) ==
  execute_limit_orders_loop(w, 0, Len(w.limit.orders), current_price, t)

\* -------------------------------------------------------- create_twap_order
create_twap_order(w, user, token_in, token_out, total_amount, intervals, interval_seconds, t) ==
  IF intervals = 0 THEN Abort(w, ARITHMETIC_ERROR)
  ELSE
    LET order == [order_id |-> w.twap.next_order_id,
                  user |-> user,
                  token_in |-> token_in,
                  token_out |-> token_out,
                  total_amount |-> total_amount,
                  amount_per_interval |-> total_amount \div intervals,
                  interval_seconds |-> interval_seconds,
                  intervals_remaining |-> intervals,
                  last_execution |-> t]
        w1 == [w EXCEPT !.twap.orders = Append(@, order)]
    IN IF AddOverflows(w1.twap.next_order_id, 1) THEN Abort(w1, ARITHMETIC_ERROR)
       ELSE Done([w1 EXCEPT !.twap.next_order_id = @ + 1])

\* ---------------------------------------------------- execute_twap_interval
\* "Execute interval" and "Emit event": the body after the two assertions
execute_twap_run(w, order_index, t) ==
  LET order == w.twap.orders[order_index + 1]
      w1 == [w EXCEPT !.twap.orders[order_index + 1].last_execution = t]
      w2 == [w1 EXCEPT !.twap.orders[order_index + 1].intervals_remaining = @ - 1]
      remaining == order.intervals_remaining - 1
  IN IF order.intervals_remaining < 1 THEN Abort(w1, ARITHMETIC_ERROR)
     ELSE IF order.amount_per_interval = 0 THEN Abort(w2, ARITHMETIC_ERROR)
     ELSE IF order.total_amount \div order.amount_per_interval < remaining
       THEN Abort(w2, ARITHMETIC_ERROR)
     ELSE
       LET interval_number == (order.total_amount \div order.amount_per_interval) - remaining
           ev == [type |-> "TWAPExecution", order_id |-> order.order_id,
                  interval_number |-> interval_number,
                  amount |-> order.amount_per_interval, timestamp |-> t]
       IN Done([w2 EXCEPT !.events = Append(@, ev)])

\* mutant: the interval check is missing
execute_twap_interval_any_time(w, executor, order_index, t) ==
  IF ~(order_index < Len(w.twap.orders)) THEN Abort(w, INDEX_OUT_OF_BOUNDS)
  ELSE
    LET order == w.twap.orders[order_index + 1] IN
    IF ~(order.intervals_remaining > 0) THEN Abort(w, E_ORDER_NOT_FOUND)
    ELSE execute_twap_run(w, order_index, t)

execute_twap_interval(w, executor, order_index, t) ==
  IF ~(order_index < Len(w.twap.orders)) THEN Abort(w, INDEX_OUT_OF_BOUNDS)
  ELSE
    LET order == w.twap.orders[order_index + 1] IN
    IF AddOverflows(order.last_execution, order.interval_seconds)
      THEN Abort(w, ARITHMETIC_ERROR)
    ELSE IF ~(t >= order.last_execution + order.interval_seconds)
      THEN Abort(w, E_ORDER_NOT_FOUND)
    ELSE IF ~(order.intervals_remaining > 0) THEN Abort(w, E_ORDER_NOT_FOUND)
    ELSE execute_twap_run(w, order_index, t)

ApplyHook(r) ==
  LET post == Commit(HookWorld, r) IN
  /\ limitBook' = post.limit
  /\ twapBook' = post.twap
  /\ emitted' = post.events
  /\ now' = now
  /\ UNCHANGED <<vaultVars, arbVars>>

PlaceLimitOrder ==
  \E user \in Addrs, a \in PlaceArgs :
    LET r == place_limit_order(HookWorld, user, "APT", "USDC", a.amount_in, 0,
                               a.trigger_price, a.expiry) IN
    /\ r.status = OK
    /\ Step
    /\ ApplyHook(r)
    /\ last' = Call("place_limit_order", user, "APT", a.amount_in)

ExecuteLimitOrders ==
  \E executor \in Addrs, current_price \in CurrentPrices :
    LET r == execute_limit_orders(HookWorld, executor, current_price, now) IN
    /\ r.status = OK
    /\ Step
    /\ ApplyHook(r)
    /\ last' = Call("execute_limit_orders", executor, "APT", current_price)

CreateTwapOrder ==
  \E user \in Addrs, a \in TwapArgs :
    LET r == create_twap_order(HookWorld, user, "APT", "USDC", a.total_amount,
                               a.intervals, a.interval_seconds, now) IN
    /\ r.status = OK
    /\ Step
    /\ ApplyHook(r)
    /\ last' = Call("create_twap_order", user, "APT", a.intervals)

ExecuteTwapInterval ==
  \E executor \in Addrs, order_index \in OrderIndices :
    LET r == execute_twap_interval(HookWorld, executor, order_index, now) IN
    /\ r.status = OK
    /\ Step
    /\ ApplyHook(r)
    /\ last' = Call("execute_twap_interval", executor, "APT", order_index)

\* timestamp::now_seconds() advances between transactions
Tick ==
  /\ now < MaxTime
  /\ Step
  /\ now' = now + 1
  /\ last' = Call("tick", Publisher, "APT", 0)
  /\ emitted' = <<>>
  /\ UNCHANGED <<vaultVars, arbVars, hookVars>>

VaultNext ==
  \/ CreateVault
  \/ Deposit
  \/ Withdraw
  \/ Harvest
  \/ PauseVault
  \/ UnpauseVault
  \/ RebalanceVault
  \/ UpdateVaultParams

ArbNext ==
  \/ OpenArbPosition
  \/ CloseArbPosition
  \/ RecordOpportunity

\* zenith::vault_core on its own
Next == VaultNext \/ Tick

Spec == Init /\ [][Next]_vars

\* zenith::funding_arbitrage on its own
NextArb == ArbNext \/ Tick

ArbSpec == Init /\ [][NextArb]_vars

\* zenith::vault_core driven by deposits and withdrawals only (no harvest)
NextDW == CreateVault \/ Deposit \/ Withdraw \/ Tick

DWSpec == Init /\ [][NextDW]_vars

\* both modules, any interleaving of their transactions
NextAll == VaultNext \/ ArbNext \/ Tick

AllSpec == Init /\ [][NextAll]_vars

\* the limit order book of zenith::tapp_hooks on its own
NextLimit == PlaceLimitOrder \/ ExecuteLimitOrders \/ Tick

LimitSpec == Init /\ [][NextLimit]_vars

\* the TWAP order book of zenith::tapp_hooks on its own
NextTwap == CreateTwapOrder \/ ExecuteTwapInterval \/ Tick

TwapSpec == Init /\ [][NextTwap]_vars

\* ========================================================================
\* Properties
\* ========================================================================

\* the users whose UserPosition is recorded for the vault of coin type c
Holders(c) == {u \in DOMAIN positions : positions[u].vault_id = vaults[c].vault_id}

\* C1: share conservation.  Under deposits and withdrawals only (DWSpec), on a
\* vault that started empty: once every holder of the vault has withdrawn all
\* of their shares, the vault's total_shares is 0 and its total_assets is 0.
C1_ShareConservation ==
  \A c \in DOMAIN vaults :
    (Holders(c) # {} /\ \A u \in Holders(c) : positions[u].shares = 0)
      => (vaults[c].total_shares = 0 /\ vaults[c].total_assets = 0)

\* C3: in every withdraw call that passes the balance check (the caller has a
\* position and position.shares >= shares) the target vault's total_shares is
\* non-zero, so the redemption never divides by zero.
C3_WithdrawNeverDividesByZero ==
  \A u \in DOMAIN positions, c \in DOMAIN vaults, shares \in ShareArgs :
    positions[u].shares >= shares => vaults[c].total_shares # 0

\* C4: a user position is scoped to one vault.  In every step, a user's shares
\* decrease only through a withdraw by that user against the vault the
\* position is recorded for.
C4_PositionScopedToVault ==
  [][\A u \in DOMAIN positions :
       positions'[u].shares < positions[u].shares
         => /\ last'.op = "withdraw"
            /\ last'.caller = u
            /\ vaults[last'.coin].vault_id = positions[u].vault_id]_vars

\* the vault of coin type c held assets but no shares before the deposit that
\* `emitted` reports (a harvest on a share-less vault leaves such assets)
OrphanedBefore(c) ==
  /\ vaults[c].total_shares = emitted[1].shares
  /\ vaults[c].total_assets > emitted[1].amount

\* this step withdraws, from the same vault and by the same user, exactly the
\* shares that the deposit of the previous step minted
RoundTrip ==
  /\ last.op = "deposit"
  /\ last'.op = "withdraw"
  /\ last'.caller = last.caller
  /\ last'.coin = last.coin
  /\ last'.arg = emitted[1].shares

\* C2 as stated: in every reachable vault state, a user who deposits A and
\* immediately withdraws all the shares that deposit minted receives at most A.
C2_RoundTripNeverPaysMore ==
  [][RoundTrip => emitted'[1].amount <= emitted[1].amount]_vars

\* C2 amended: the round trip pays at most A unless the vault held assets but
\* no shares before the deposit; from such a state, with R assets, it pays A + R.
C2_RoundTripAmended ==
  [][RoundTrip =>
       IF OrphanedBefore(last.coin)
       THEN emitted'[1].amount = vaults[last.coin].total_assets
       ELSE emitted'[1].amount <= emitted[1].amount]_vars

\* a deposit into an empty vault followed at once by the withdrawal of all the
\* shares it minted: the only runs of three transactions that end in a withdraw
C2_Witness ==
  /\ steps = 3
  /\ last.op = "withdraw"
  /\ last.arg > 0
  /\ emitted[1].amount = last.arg

\* total_assets of an existing vault grew in this step while total_shares did not
GrowsWithoutShares(c) ==
  /\ c \in DOMAIN vaults
  /\ vaults'[c].total_assets > vaults[c].total_assets
  /\ vaults'[c].total_shares = vaults[c].total_shares

\* C5 as stated: every step in which a vault's total_assets increases and its
\* total_shares is unchanged is a harvest.
C5_OnlyHarvestGrowsAssets ==
  [][\A c \in CoinTypes : GrowsWithoutShares(c) => last'.op = "harvest"]_vars

\* C5 amended: such a step is a harvest or a deposit whose amount mints zero
\* shares because floor(amount * total_shares / total_assets) = 0.
C5_HarvestOrZeroMint ==
  [][\A c \in CoinTypes :
       GrowsWithoutShares(c)
         => \/ last'.op = "harvest"
            \/ /\ last'.op = "deposit"
               /\ emitted'[1].shares = 0
               /\ (last'.arg * vaults[c].total_shares) \div vaults[c].total_assets = 0]_vars

\* a deposit that minted no shares has happened
C5_Witness ==
  /\ last.op = "deposit"
  /\ emitted[1].amount > 0
  /\ emitted[1].shares = 0

\* C6: rebalance cadence.  Right after a rebalance_vault succeeded at time t =
\* now, every rebalance_vault call on that vault at a time earlier than
\* t + rebalance_interval fails with RebalanceTooSoon.
C6_RebalanceCadence ==
  last.op = "rebalance_vault" =>
    \A keeper \in Addrs, price \in Prices, conf \in Confidences, t \in now..(MaxTime + 1) :
      t < now + vaults[last.coin].rebalance_interval
        => rebalance_vault(World, keeper, last.coin, price, conf, t).status
             = E_REBALANCE_TOO_SOON

\* the world with the vault of coin type c unpaused
Unpaused(w, c) == [w EXCEPT !.vaults[c].paused = FALSE]

\* withdraw has the same outcome on the paused vault c as on the same vault unpaused
SameAsUnpaused(user, c, shares) ==
  LET r == withdraw(World, user, c, shares, now)
      q == withdraw(Unpaused(World, c), user, c, shares, now)
  IN /\ r.status = q.status
     /\ Unpaused(r.w, c) = q.w
     /\ r.w.vaults[c].paused

\* C7 as stated: a deposit on a paused vault fails with VaultPaused for every
\* amount; a withdraw of shares the caller holds still succeeds, with the same
\* effect as on an unpaused vault.
C7_PauseGating ==
  \A c \in DOMAIN vaults :
    vaults[c].paused =>
      /\ \A user \in Addrs, amount \in Amounts :
           deposit(World, user, c, amount, now).status = E_VAULT_PAUSED
      /\ \A user \in DOMAIN positions, shares \in ShareArgs :
           positions[user].shares >= shares
             => /\ withdraw(World, user, c, shares, now).status = OK
                /\ SameAsUnpaused(user, c, shares)

\* C7 amended: a deposit of an amount > 0 on a paused vault fails with
\* VaultPaused and a deposit of 0 with InvalidAmount; a withdraw on a paused
\* vault has exactly the outcome (success or abort) and effect it has on the
\* same vault unpaused: pausing never blocks or alters a withdrawal.
C7_PauseGatingAmended ==
  \A c \in DOMAIN vaults :
    vaults[c].paused =>
      /\ \A user \in Addrs, amount \in Amounts :
           deposit(World, user, c, amount, now).status
             = IF amount > 0 THEN E_VAULT_PAUSED ELSE E_INVALID_AMOUNT
      /\ \A user \in Addrs, shares \in ShareArgs : SameAsUnpaused(user, c, shares)

\* shares have been withdrawn from a paused vault
C7_Witness ==
  /\ last.op = "withdraw"
  /\ last.arg > 0
  /\ vaults[last.coin].paused

\* C8 as stated: every successful harvest(profit) applies net_profit <= profit,
\* and net_profit = profit if and only if performance_fee = 0.
C8_FeeMonotonicity ==
  last.op = "harvest" =>
    /\ emitted[1].profit <= last.arg
    /\ (emitted[1].profit = last.arg) <=> (vaults[last.coin].performance_fee = 0)

\* C8 amended: net_profit <= profit, and net_profit = profit if and only if
\* the fee rounds down to zero, that is profit * performance_fee < 10000
\* (always so when performance_fee = 0).
C8_FeeMonotonicityAmended ==
  last.op = "harvest" =>
    /\ emitted[1].profit <= last.arg
    /\ (emitted[1].profit = last.arg)
         <=> (last.arg * vaults[last.coin].performance_fee < BPS)
    /\ vaults[last.coin].performance_fee = 0 => emitted[1].profit = last.arg

\* a harvest has taken a non-zero fee
C8_Witness ==
  /\ last.op = "harvest"
  /\ emitted[1].profit < last.arg

\* the aborts that come from an assertion of the code (a failed precondition)
PreconditionErrors ==
  {E_INVALID_AMOUNT, E_VAULT_PAUSED, E_INSUFFICIENT_BALANCE, E_NOT_AUTHORIZED,
   E_REBALANCE_TOO_SOON, E_PRICE_STALE, E_INVALID_FUNDING_RATE, E_POSITION_NOT_FOUND}

\* the outcomes of every enumerated vault_core call issued in the current state
VaultCalls ==
  {create_vault(World, a, ca.coin, ca.cfg, now) : a \in Addrs, ca \in CreateArgs}
  \cup {deposit(World, u, c, x, now) : u \in Addrs, c \in CoinTypes, x \in Amounts}
  \cup {withdraw(World, u, c, x, now) : u \in Addrs, c \in CoinTypes, x \in ShareArgs}
  \cup {harvest(World, u, c, x, now) : u \in Addrs, c \in CoinTypes, x \in Profits}
  \cup {pause_vault(World, u, c) : u \in Addrs, c \in CoinTypes}
  \cup {unpause_vault(World, u, c) : u \in Addrs, c \in CoinTypes}
  \cup {rebalance_vault(World, u, c, 100, x, now) : u \in Addrs, c \in CoinTypes, x \in Confidences}
  \cup {update_vault_params(World, u, c, p.rebalance_interval, p.target_leverage,
                            p.max_slippage) : u \in Addrs, c \in CoinTypes, p \in ParamChoices}

\* the outcomes of every enumerated open_arb_position call issued in the current state
OpenCalls ==
  {open_arb_position(ArbWorld, u, "APT-PERP", a.funding_rate, a.size, a.collateral, 100, now) :
     u \in Addrs, a \in OpenArgs}

\* the outcomes of every enumerated close_arb_position call issued in the current state
CloseCalls ==
  {close_arb_position(ArbWorld, u, i, x, now) :
     u \in Addrs, i \in PositionIndices, x \in ExitPrices}

\* C9: all-or-nothing.  Whenever a vault or arbitrage operation aborts, every
\* vault, user position, registry, per-user arbitrage state and event log is
\* as before the call: a failed precondition is detected before anything has
\* been written, and no write of an aborted call is committed.  A rejected
\* open_arb_position creates no UserArbState and consumes no position id.
C9_AllOrNothing ==
  /\ \A r \in VaultCalls :
       /\ r.status \in PreconditionErrors => r.w = World
       /\ r.status # OK => Commit(World, r) = World
  /\ \A r \in OpenCalls \cup CloseCalls :
       /\ r.status \in PreconditionErrors => r.w = ArbWorld
       /\ r.status # OK => Commit(ArbWorld, r) = ArbWorld
  /\ \A r \in OpenCalls :
       r.status # OK =>
         /\ DOMAIN Commit(ArbWorld, r).states = DOMAIN arbStates
         /\ Commit(ArbWorld, r).registry.next_position_id = arbRegistry.next_position_id

\* a state in which a deposit is rejected because the vault is paused, a close
\* is rejected because the position is already closed, and an
\* open_arb_position aborts after it has appended the position
C9_Witness ==
  /\ \E u \in Addrs, c \in CoinTypes :
       deposit(World, u, c, 1, now).status = E_VAULT_PAUSED
  /\ \E r \in CloseCalls : r.status = E_POSITION_NOT_FOUND
  /\ \E r \in OpenCalls : r.status = ARITHMETIC_ERROR /\ r.w # ArbWorld
  /\ last.op = "pause_vault"

\* one of the admin-gated fields of the vault of coin type c changes in this step
AdminFieldChanges(c) ==
  \/ vaults'[c].paused # vaults[c].paused
  \/ vaults'[c].rebalance_interval # vaults[c].rebalance_interval
  \/ vaults'[c].target_leverage # vaults[c].target_leverage
  \/ vaults'[c].max_slippage # vaults[c].max_slippage
  \/ vaults'[c].last_harvest # vaults[c].last_harvest

\* harvest, pause_vault, unpause_vault and update_vault_params issued by
\* anyone but the recorded admin fail with NotAuthorized
NonAdminRejected ==
  \A c \in DOMAIN vaults : \A u \in Addrs \ {vaults[c].admin} :
    /\ \A x \in Profits : harvest(World, u, c, x, now).status = E_NOT_AUTHORIZED
    /\ pause_vault(World, u, c).status = E_NOT_AUTHORIZED
    /\ unpause_vault(World, u, c).status = E_NOT_AUTHORIZED
    /\ \A p \in ParamChoices :
         update_vault_params(World, u, c, p.rebalance_interval, p.target_leverage,
                             p.max_slippage).status = E_NOT_AUTHORIZED

\* C10: authorization boundary.  harvest, pause_vault, unpause_vault and
\* update_vault_params called by anyone but the vault's recorded admin fail
\* with NotAuthorized, and paused, rebalance_interval, target_leverage,
\* max_slippage and last_harvest change only in steps taken by the admin.
C10_AuthorizationBoundary ==
  /\ []NonAdminRejected
  /\ [][\A c \in DOMAIN vaults :
          AdminFieldChanges(c) => last'.caller = vaults[c].admin /\ last'.coin = c]_vars

\* the admin has changed the parameters of a vault while another principal,
\* who is refused, exists
C10_Witness ==
  /\ last.op = "update_vault_params"
  /\ last.caller = vaults[last.coin].admin
  /\ vaults[last.coin].paused
  /\ \E u \in Addrs : pause_vault(World, u, last.coin).status = E_NOT_AUTHORIZED

\* the shares of user u, 0 when u has no UserPosition
SharesOf(u) == IF u \in DOMAIN positions THEN positions[u].shares ELSE 0

\* C11: deposit effect.  A successful deposit(amount) mints amount shares when
\* the vault's total_shares is 0 and floor(amount * total_shares / total_assets)
\* otherwise; it adds the minted shares to total_shares and to the caller's
\* position and amount to total_assets; deposited_at is set to now when the
\* position is created and is left unchanged by a top-up.
C11_DepositEffect ==
  [][last'.op = "deposit" =>
       LET c == last'.coin
           u == last'.caller
           amount == last'.arg
           minted == IF vaults[c].total_shares = 0 THEN amount
                     ELSE (amount * vaults[c].total_shares) \div vaults[c].total_assets
       IN /\ emitted'[1].shares = minted
          /\ vaults'[c].total_shares = vaults[c].total_shares + minted
          /\ vaults'[c].total_assets = vaults[c].total_assets + amount
          /\ positions'[u].shares = SharesOf(u) + minted
          /\ positions'[u].deposited_at
               = IF u \in DOMAIN positions THEN positions[u].deposited_at ELSE now]_vars

\* a top-up of a position created at an earlier time, into a vault that
\* already had shares
C11_Witness ==
  /\ last.op = "deposit"
  /\ positions[last.caller].deposited_at < now
  /\ positions[last.caller].shares > emitted[1].shares
  /\ vaults[last.coin].total_shares > emitted[1].shares
  /\ emitted[1].shares > 0

\* the effect of withdraw(shares) by user on the vault of coin type c, as
\* the redemption rule states it
WithdrawPays(r, user, c, shares) ==
  LET amount_out == (shares * vaults[c].total_assets) \div vaults[c].total_shares IN
  /\ r.w.events[1].amount = amount_out
  /\ r.w.vaults[c].total_shares = vaults[c].total_shares - shares
  /\ r.w.vaults[c].total_assets = vaults[c].total_assets - amount_out
  /\ r.w.positions[user].shares = positions[user].shares - shares
  /\ \A o \in DOMAIN positions \ {user} : r.w.positions[o] = positions[o]

\* C12: withdraw effect.  withdraw(shares) fails with InsufficientBalance when
\* the caller has no position or holds fewer than shares; otherwise it pays
\* floor(shares * total_assets / total_shares) and decreases total_shares by
\* shares, total_assets by the amount paid and the caller's position by
\* shares, leaving every other user's position unchanged.
C12_WithdrawEffect ==
  \A user \in Addrs, c \in DOMAIN vaults, shares \in ShareArgs :
    LET r == withdraw(World, user, c, shares, now) IN
    IF user \notin DOMAIN positions \/ positions[user].shares < shares
    THEN r.status = E_INSUFFICIENT_BALANCE
    ELSE r.status = OK /\ WithdrawPays(r, user, c, shares)

\* C13: harvest effect.  A successful harvest(profit) increases total_assets by
\* exactly profit - floor(profit * performance_fee / 10000), sets last_harvest
\* to now and leaves total_shares, every user position, paused and the fee
\* configuration unchanged.
C13_HarvestEffect ==
  [][last'.op = "harvest" =>
       LET c == last'.coin
           profit == last'.arg
           fee == (profit * vaults[c].performance_fee) \div BPS
       IN /\ last'.caller = vaults[c].admin
          /\ vaults'[c].total_assets = vaults[c].total_assets + (profit - fee)
          /\ vaults'[c].last_harvest = now
          /\ vaults'[c].total_shares = vaults[c].total_shares
          /\ vaults'[c].paused = vaults[c].paused
          /\ vaults'[c].performance_fee = vaults[c].performance_fee
          /\ vaults'[c].management_fee = vaults[c].management_fee
          /\ positions' = positions]_vars

\* a harvest that took a fee, on a vault with shares outstanding, at a later
\* time than the vault's creation
C13_Witness ==
  /\ last.op = "harvest"
  /\ last.arg = 2
  /\ emitted[1].profit = 1
  /\ vaults[last.coin].total_shares > 0
  /\ vaults[last.coin].last_harvest = 1
  /\ DOMAIN positions # {}

\* C14: overflow freedom.  Fee and share conversions use a widened
\* intermediate product: whenever the exact results are representable in u64,
\* deposit, withdraw and harvest succeed instead of aborting because the
\* product exceeds the width.  The results are representable when
\*   withdraw: 0 < shares <= total_shares, so that amount_out <= total_assets;
\*   deposit:  0 < total_shares <= total_assets, so that the minted shares are
\*             at most amount, and the three sums fit;
\*   harvest:  performance_fee <= 10000, so that fee <= profit, and the sum fits.
C14_OverflowFreedom ==
  \A c \in DOMAIN vaults :
    /\ \A user \in DOMAIN positions, shares \in ShareArgs :
         (/\ positions[user].shares >= shares
          /\ 0 < shares
          /\ shares <= vaults[c].total_shares)
           => withdraw(World, user, c, shares, now).status = OK
    /\ \A user \in Addrs, amount \in Amounts :
         (/\ amount > 0
          /\ ~vaults[c].paused
          /\ 0 < vaults[c].total_shares
          /\ vaults[c].total_shares <= vaults[c].total_assets
          /\ ~AddOverflows(vaults[c].total_assets, amount)
          /\ ~AddOverflows(SharesOf(user), amount))
           => deposit(World, user, c, amount, now).status = OK
    /\ \A profit \in Profits :
         (/\ vaults[c].performance_fee <= BPS
          /\ ~AddOverflows(vaults[c].total_assets, profit))
           => harvest(World, vaults[c].admin, c, profit, now).status = OK

\* the vault ids are pairwise distinct and below next_vault_id, vault_count is
\* next_vault_id - 1, and a create_vault that fails consumes no id
VaultIdsConsistent ==
  /\ registry.vault_count = registry.next_vault_id - 1
  /\ registry.vault_count = Cardinality(DOMAIN vaults)
  /\ \A c \in DOMAIN vaults : vaults[c].vault_id < registry.next_vault_id
  /\ \A c, d \in DOMAIN vaults : vaults[c].vault_id = vaults[d].vault_id => c = d
  /\ \A admin \in Addrs, ca \in CreateArgs :
       LET r == create_vault(World, admin, ca.coin, ca.cfg, now) IN
       /\ r.status # OK <=> (admin # Publisher \/ ca.coin \in DOMAIN vaults)
       /\ r.status # OK => Commit(World, r).registry = registry

\* a create_vault step hands out the current next_vault_id and increments it;
\* no other step changes the registry or the id of a vault
VaultIdsAssigned ==
  /\ \A c \in DOMAIN vaults : c \in DOMAIN vaults' /\ vaults'[c].vault_id = vaults[c].vault_id
  /\ IF last'.op = "create_vault" /\ steps' # steps
     THEN /\ last'.coin \notin DOMAIN vaults
          /\ vaults'[last'.coin].vault_id = registry.next_vault_id
          /\ registry'.next_vault_id = registry.next_vault_id + 1
     ELSE registry' = registry /\ DOMAIN vaults' = DOMAIN vaults

\* C15: vault identifiers.  Every successful create_vault gives the new vault
\* the registry's current next_vault_id and then increments it, so vault ids
\* are pairwise distinct, strictly increasing in creation order and never
\* reused, and vault_count = next_vault_id - 1 in every reachable state; a
\* create_vault that fails (the caller does not own the registry, or a vault of
\* that coin type already exists) consumes no id.
C15_VaultIdentifiers ==
  /\ []VaultIdsConsistent
  /\ [][VaultIdsAssigned]_vars

\* two vaults have been created, the second with the larger id, and both kinds
\* of failing create_vault are possible
C15_Witness ==
  /\ last.op = "create_vault"
  /\ DOMAIN vaults = CoinTypes
  /\ vaults[last.coin].vault_id = 2
  /\ vaults[last.coin].vault_id > vaults[CHOOSE c \in CoinTypes : c # last.coin].vault_id
  /\ \E ca \in CreateArgs :
       /\ create_vault(World, Publisher, ca.coin, ca.cfg, now).status = RESOURCE_ALREADY_EXISTS
       /\ create_vault(World, "alice", ca.coin, ca.cfg, now).status = MISSING_DATA

\* the UserArbState of user u, as open_arb_position sees it once it has
\* initialised a missing one
ArbStateOf(u) ==
  IF u \in DOMAIN arbStates THEN arbStates[u]
  ELSE [positions |-> <<>>, total_collateral |-> 0, total_profit |-> 0, position_count |-> 0]

\* the effect of a successful open_arb_position by user with arguments a
OpenAppends(r, user, a) ==
  LET before == ArbStateOf(user)
      after == r.w.states[user]
      position == after.positions[Len(after.positions)]
  IN /\ Len(after.positions) = Len(before.positions) + 1
     /\ SubSeq(after.positions, 1, Len(before.positions)) = before.positions
     /\ position.is_active
     /\ position.side = 1
     /\ position.expected_profit = (a.size * a.funding_rate) \div BPS
     /\ position.position_id = arbRegistry.next_position_id
     /\ r.w.registry.next_position_id = arbRegistry.next_position_id + 1
     /\ r.w.registry.total_positions = arbRegistry.total_positions + 1
     /\ r.w.registry.total_volume = arbRegistry.total_volume + a.size
     /\ after.position_count = before.position_count + 1
     /\ after.total_collateral = before.total_collateral + a.collateral

\* C16: open position.  open_arb_position succeeds exactly when funding_rate
\* >= 10 (else InvalidFundingRate); on success it appends one position with
\* is_active = true, side = long, expected_profit = floor(size * funding_rate
\* / 10000) and position_id = the registry's previous next_position_id,
\* increments next_position_id and total_positions, adds size to total_volume,
\* 1 to the caller's position_count and collateral to total_collateral.
C16_OpenPosition ==
  \A user \in Addrs, a \in OpenArgs :
    LET r == open_arb_position(ArbWorld, user, "APT-PERP", a.funding_rate, a.size,
                               a.collateral, 100, now) IN
    IF a.funding_rate >= MIN_FUNDING_RATE
    THEN r.status = OK /\ OpenAppends(r, user, a)
    ELSE r.status = E_INVALID_FUNDING_RATE

\* a close of a missing index or of a position that is not active, by the
\* owner of the list, fails with PositionNotFound; a user has no handle on
\* another user's list, close_arb_position reads the caller's own
CloseNeedsActive ==
  \A user \in Addrs, i \in PositionIndices, x \in ExitPrices :
    LET r == close_arb_position(ArbWorld, user, i, x, now) IN
    /\ (\/ user \notin DOMAIN arbStates
        \/ i >= Len(arbStates[user].positions)
        \/ ~arbStates[user].positions[i + 1].is_active)
         => r.status = E_POSITION_NOT_FOUND
    /\ r.status = OK =>
         \A o \in DOMAIN arbStates \ {user} : r.w.states[o] = arbStates[o]

\* in a step, the list of a user only grows at its end; a position changes
\* only in is_active, only from active to inactive, and only by a
\* close_arb_position of its owner at its index
ListAppendOnly ==
  \A u \in DOMAIN arbStates :
    /\ u \in DOMAIN arbStates'
    /\ Len(arbStates'[u].positions) >= Len(arbStates[u].positions)
    /\ \A i \in 1..Len(arbStates[u].positions) :
         LET p == arbStates[u].positions[i]
             q == arbStates'[u].positions[i]
         IN /\ [q EXCEPT !.is_active = p.is_active] = p
            /\ ~p.is_active => ~q.is_active
            /\ (p.is_active /\ ~q.is_active)
                 => /\ last'.op = "close_arb_position"
                    /\ last'.caller = u
                    /\ last'.arg = i - 1

\* C17: position lifecycle.  A position is closed only by its owner and only
\* if its index exists and it is active (otherwise PositionNotFound); once
\* closed it stays inactive forever, a second close of the same index fails
\* with PositionNotFound, and positions are never removed from or reordered
\* in the owner's list.
C17_PositionLifecycle ==
  /\ []CloseNeedsActive
  /\ [][ListAppendOnly]_vars

\* the first of two positions has just been closed: closing it again fails
\* with PositionNotFound and the second one is still in place and active
C17_Witness ==
  /\ last.op = "close_arb_position"
  /\ last.arg = 0
  /\ Len(arbStates[last.caller].positions) = 2
  /\ ~arbStates[last.caller].positions[1].is_active
  /\ arbStates[last.caller].positions[2].is_active
  /\ \A x \in ExitPrices :
       close_arb_position(ArbWorld, last.caller, 0, x, now).status = E_POSITION_NOT_FOUND

\* close_arb_position has the same outcome, state and event for any two exit prices
ExitPriceIrrelevant ==
  \A user \in Addrs, i \in PositionIndices, x \in ExitPrices, y \in ExitPrices :
    close_arb_position(ArbWorld, user, i, x, now) = close_arb_position(ArbWorld, user, i, y, now)

\* a close step adds floor(funding_rate * size * time_held / (10000 * 86400))
\* to total_profit, reports it in the event and releases the collateral
CloseSettles ==
  last'.op = "close_arb_position" =>
    LET u == last'.caller
        p == arbStates[u].positions[last'.arg + 1]
        realized_profit ==
          (p.funding_rate * p.size * (now - p.entry_timestamp)) \div (BPS * SECONDS_PER_DAY)
    IN /\ arbStates'[u].total_profit = arbStates[u].total_profit + realized_profit
       /\ arbStates'[u].total_collateral = arbStates[u].total_collateral - p.collateral
       /\ emitted'[1].realized_profit = realized_profit
       /\ emitted'[1].position_id = p.position_id
       /\ ~arbStates'[u].positions[last'.arg + 1].is_active

\* C18: close effect.  A successful close_arb_position adds realized_profit =
\* floor(funding_rate * size * (now - entry_timestamp) / (10000 * 86400)) to
\* the owner's total_profit and subtracts the position's collateral from
\* total_collateral; the resulting state and the emitted PositionClosed event
\* are identical for any two values of exit_price.
C18_CloseEffect ==
  /\ []ExitPriceIrrelevant
  /\ [][CloseSettles]_vars

\* a position held for a positive time has been closed with a positive profit
C18_Witness ==
  /\ last.op = "close_arb_position"
  /\ emitted[1].realized_profit > 0
  /\ arbStates[last.caller].total_profit > 0
  /\ arbStates[last.caller].positions[last.arg + 1].entry_timestamp < now

\* record_opportunity issued in the current state by any caller succeeds,
\* emits one OpportunityFound when funding_rate >= 10 and nothing otherwise,
\* and writes no registry counter and no user state
RecordOnlyEmits ==
  \A keeper \in Addrs, market \in Markets, rate \in OpportunityRates, pp \in PredictedProfits :
    LET r == record_opportunity(ArbWorld, keeper, market, rate, pp, now) IN
    /\ r.status = OK
    /\ r.w.registry = arbRegistry
    /\ r.w.states = arbStates
    /\ r.w.events = IF rate >= 10
                    THEN <<[type |-> "OpportunityFound", market |-> market,
                            funding_rate |-> rate, predicted_profit |-> pp,
                            timestamp |-> now]>>
                    ELSE <<>>

AllPositions ==
  UNION {{<<u, i>> : i \in 1..Len(arbStates[u].positions)} : u \in DOMAIN arbStates}

\* C20: position ids do not collide.  Under every interleaving of
\* open_arb_position calls by different users, all positions of all users
\* carry pairwise distinct position_ids, and the registry's total_positions
\* equals the number of positions that exist.
C20_PositionIdsDistinct ==
  /\ \A a, b \in AllPositions :
       arbStates[a[1]].positions[a[2]].position_id = arbStates[b[1]].positions[b[2]].position_id
         => a = b
  /\ arbRegistry.total_positions = Cardinality(AllPositions)

\* two users have opened positions in turn
C20_Witness ==
  /\ DOMAIN arbStates = Addrs
  /\ arbRegistry.total_positions = 3
  /\ \E u \in Addrs : /\ Len(arbStates[u].positions) = 2
                      /\ arbStates[u].positions[2].position_id
                           = arbStates[u].positions[1].position_id + 2

\* the deposit, withdraw and harvest transactions that are enumerated
VaultOps ==
  {[kind |-> "deposit", user |-> u, coin |-> c, arg |-> x] :
     u \in Addrs, c \in CoinTypes, x \in Amounts}
  \cup {[kind |-> "withdraw", user |-> u, coin |-> c, arg |-> x] :
          u \in Addrs, c \in CoinTypes, x \in ShareArgs}
  \cup {[kind |-> "harvest", user |-> u, coin |-> c, arg |-> x] :
          u \in Addrs, c \in CoinTypes, x \in Profits}

\* the outcome of transaction op issued in world w
RunOp(w, op) ==
  IF op.kind = "deposit" THEN deposit(w, op.user, op.coin, op.arg, now)
  ELSE IF op.kind = "withdraw" THEN withdraw(w, op.user, op.coin, op.arg, now)
  ELSE harvest(w, op.user, op.coin, op.arg, now)

\* the outcome of op2 issued after op1 has succeeded in the current state
RunAfter(op1, op2) ==
  RunOp([RunOp(World, op1).w EXCEPT !.events = <<>>], op2)

\* C21: independence across vaults.  Two operations that target different
\* vaults commute: when both succeed in either order from the same state, the
\* two orders end in the same vaults and the same user positions, also when
\* both are issued by the same user.
C21_DifferentVaultsCommute ==
  \A op1, op2 \in VaultOps :
    (/\ op1.coin # op2.coin
     /\ RunOp(World, op1).status = OK
     /\ RunOp(World, op2).status = OK
     /\ RunAfter(op1, op2).status = OK
     /\ RunAfter(op2, op1).status = OK)
      => /\ RunAfter(op1, op2).w.vaults = RunAfter(op2, op1).w.vaults
         /\ RunAfter(op1, op2).w.positions = RunAfter(op2, op1).w.positions

\* C22: rebalance_vault succeeds exactly when now >= last_rebalance +
\* rebalance_interval and price_confidence > 0, for any caller and whether or
\* not the vault is paused; when both conditions fail the error is
\* RebalanceTooSoon; a successful call sets last_rebalance to now, appends one
\* Harvest-shaped event with profit 0 and leaves total_shares, total_assets,
\* paused, last_harvest and all user positions unchanged.
C22_RebalanceEffect ==
  \A keeper \in Addrs, c \in DOMAIN vaults, price \in Prices, conf \in Confidences :
    LET r == rebalance_vault(World, keeper, c, price, conf, now)
        due == now >= vaults[c].last_rebalance + vaults[c].rebalance_interval
    IN /\ r.status = OK <=> (due /\ conf > 0)
       /\ (~due /\ ~(conf > 0)) => r.status = E_REBALANCE_TOO_SOON
       /\ r.status = OK =>
            /\ r.w.vaults[c].last_rebalance = now
            /\ Len(r.w.events) = 1
            /\ r.w.events[1].type = "Harvest"
            /\ r.w.events[1].profit = 0
            /\ r.w.vaults[c].total_shares = vaults[c].total_shares
            /\ r.w.vaults[c].total_assets = vaults[c].total_assets
            /\ r.w.vaults[c].paused = vaults[c].paused
            /\ r.w.vaults[c].last_harvest = vaults[c].last_harvest
            /\ r.w.positions = positions

\* C24: in every reachable state of every vault, total_assets >= total_shares;
\* hence whenever total_shares > 0 also total_assets > 0, and the share-minting
\* division of deposit never divides by zero.
C24_AssetsCoverShares ==
  \A c \in DOMAIN vaults :
    /\ vaults[c].total_assets >= vaults[c].total_shares
    /\ vaults[c].total_shares > 0 => vaults[c].total_assets > 0
    /\ \A user \in Addrs, amount \in Amounts :
         LET r == deposit(World, user, c, amount, now) IN
         r.status = ARITHMETIC_ERROR
           => \/ MulOverflows(amount, vaults[c].total_shares)
              \/ AddOverflows(vaults[c].total_assets, amount)
              \/ AddOverflows(SharesOf(user), amount)

\* shares have been withdrawn from a vault whose share price is above 1, and
\* shares are left: a deposit now divides by total_assets
C24_Witness ==
  /\ last.op = "withdraw"
  /\ last.arg > 0
  /\ vaults[last.coin].total_shares > 0
  /\ vaults[last.coin].total_assets > vaults[last.coin].total_shares
  /\ deposit(World, last.caller, last.coin, 1, now).status = OK

\* p1 / q1 >= p2 / q2 for naturals with q1, q2 > 0, by continued fractions, so
\* that no product is formed
RECURSIVE GeqFrac(_, _, _, _)
GeqFrac(p1, q1, p2, q2) ==
  IF p1 \div q1 # p2 \div q2 THEN p1 \div q1 > p2 \div q2
  ELSE IF p2 % q2 = 0 THEN TRUE
  ELSE IF p1 % q1 = 0 THEN FALSE
  ELSE GeqFrac(q2, p2 % q2, q1, p1 % q1)

\* C25: no dilution.  For every successful deposit, withdraw, harvest or
\* rebalance taking a vault from (S, A) to (S', A') with S > 0 and S' > 0,
\* A' * S >= A * S', that is A' / S' >= A / S.
C25_NoDilution ==
  [][\A c \in DOMAIN vaults :
       (vaults[c].total_shares > 0 /\ vaults'[c].total_shares > 0)
         => GeqFrac(vaults'[c].total_assets, vaults'[c].total_shares,
                    vaults[c].total_assets, vaults[c].total_shares)]_vars

\* a withdrawal whose rounding has raised the share price of the remaining shares
C25_Witness ==
  /\ last.op = "withdraw"
  /\ last.arg = 1
  /\ vaults[last.coin].total_shares = 1
  /\ vaults[last.coin].total_assets = 2
  /\ emitted[1].amount = 1

\* the sum of f[x] over the finite set S
RECURSIVE SumOver(_, _)
SumOver(f, S) ==
  IF S = {} THEN 0
  ELSE LET x == CHOOSE y \in S : TRUE IN f[x] + SumOver(f, S \ {x})

\* C26: share ledger consistency.  In every reachable state, each vault's
\* total_shares equals the sum of the shares held by the user positions
\* recorded for that vault (position.vault_id = vault.vault_id).
C26_ShareLedger ==
  \A c \in DOMAIN vaults :
    vaults[c].total_shares = SumOver([u \in Holders(c) |-> positions[u].shares], Holders(c))

\* the sum of the given field over the records of the sequence s
RECURSIVE SumSeq(_, _)
SumSeq(s, field) ==
  IF s = <<>> THEN 0 ELSE Head(s)[field] + SumSeq(Tail(s), field)

\* the subsequence of the active positions of s
RECURSIVE ActiveOf(_)
ActiveOf(s) ==
  IF s = <<>> THEN <<>>
  ELSE IF Head(s).is_active THEN <<Head(s)>> \o ActiveOf(Tail(s))
  ELSE ActiveOf(Tail(s))

\* the accounting identities of the arbitrage ledger
ArbAccounts ==
  /\ \A u \in DOMAIN arbStates :
       /\ arbStates[u].total_collateral = SumSeq(ActiveOf(arbStates[u].positions), "collateral")
       /\ arbStates[u].position_count = Len(arbStates[u].positions)
  /\ arbRegistry.total_positions = arbRegistry.next_position_id - 1
  /\ arbRegistry.total_positions
       = SumOver([u \in DOMAIN arbStates |-> arbStates[u].position_count], DOMAIN arbStates)
  /\ arbRegistry.total_volume
       = SumOver([u \in DOMAIN arbStates |-> SumSeq(arbStates[u].positions, "size")],
                 DOMAIN arbStates)
  /\ \A r \in CloseCalls : r.status \in {OK, E_POSITION_NOT_FOUND}

\* C27: arbitrage accounting invariants.  In every reachable state each user's
\* total_collateral equals the sum of collateral over that user's active
\* positions (so closing never underflows it), each user's position_count
\* equals the length of their list and never decreases, total_positions equals
\* next_position_id - 1 and the sum of all position_counts, and total_volume
\* equals the sum of size over all positions ever opened.
C27_ArbAccounting ==
  /\ []ArbAccounts
  /\ [][\A u \in DOMAIN arbStates :
          arbStates'[u].position_count >= arbStates[u].position_count]_vars

\* one of two positions of a user has been closed, the other is still active
C27_Witness ==
  /\ last.op = "close_arb_position"
  /\ Len(arbStates[last.caller].positions) = 2
  /\ Len(ActiveOf(arbStates[last.caller].positions)) = 1
  /\ arbStates[last.caller].total_collateral > 0
  /\ arbRegistry.total_volume > 1

\* C28: create_vault accepts any performance_fee, and for a vault whose
\* performance_fee exceeds 10000 every harvest by the admin with
\* floor(profit * performance_fee / 10000) > profit aborts on the subtraction
\* and leaves total_assets and last_harvest unchanged; such a vault only ever
\* harvests profits for which the fee does not exceed the profit.
C28_FeeAboveProfit ==
  /\ [](/\ \A ca \in CreateArgs :
             ca.coin \notin DOMAIN vaults
               => create_vault(World, Publisher, ca.coin, ca.cfg, now).status = OK
        /\ \A c \in DOMAIN vaults, profit \in Profits :
             LET r == harvest(World, vaults[c].admin, c, profit, now) IN
             (vaults[c].performance_fee > BPS
                /\ (profit * vaults[c].performance_fee) \div BPS > profit)
               => /\ r.status = ARITHMETIC_ERROR
                  /\ Commit(World, r).vaults[c].total_assets = vaults[c].total_assets
                  /\ Commit(World, r).vaults[c].last_harvest = vaults[c].last_harvest)
  /\ [][last'.op = "harvest"
          => (last'.arg * vaults[last'.coin].performance_fee) \div BPS <= last'.arg]_vars

\* a vault with a performance fee of 200% has harvested a profit of 0, at a
\* later time than its creation, and refuses a profit of 1
C28_Witness ==
  /\ last.op = "harvest"
  /\ vaults[last.coin].performance_fee > BPS
  /\ vaults[last.coin].last_harvest = 1
  /\ harvest(World, last.caller, last.coin, 1, now).status = ARITHMETIC_ERROR

\* C29: preview agreement.  In every state with total_shares > 0,
\* calculate_withdraw_amount(shares) equals the amount a withdraw of the same
\* number of shares executed in that state pays out; in a state with
\* total_shares = 0 the preview returns 0 and does not abort.
C29_PreviewAgreement ==
  \A c \in DOMAIN vaults, shares \in ShareArgs :
    LET v == calculate_withdraw_amount(World, c, shares) IN
    /\ vaults[c].total_shares > 0 =>
         \A user \in Addrs :
           LET r == withdraw(World, user, c, shares, now) IN
           r.status = OK => (v.status = OK /\ v.value = r.w.events[1].amount)
    /\ vaults[c].total_shares = 0 => (v.status = OK /\ v.value = 0)

\* one vault has a share price of 2 and a holder who can withdraw, the other
\* vault has no shares
C29_Witness ==
  /\ DOMAIN vaults = CoinTypes
  /\ \E c \in CoinTypes, user \in DOMAIN positions :
       /\ withdraw(World, user, c, 1, now).status = OK
       /\ calculate_withdraw_amount(World, c, 1) = [status |-> OK, value |-> 2]
  /\ \E c \in CoinTypes : vaults[c].total_shares = 0

\* the vector indices (from 1) of the orders execute_limit_orders is to fill
Eligible(current_price) ==
  {i \in 1..Len(limitBook.orders) :
     /\ ~limitBook.orders[i].filled
     /\ limitBook.orders[i].trigger_price <= current_price
     /\ limitBook.orders[i].expiry > now}

\* execute_limit_orders issued in the current state fills every eligible
\* order, with exactly one event each, and leaves the other orders unchanged
ExecuteFillsEligible ==
  \A executor \in Addrs, current_price \in CurrentPrices :
    LET r == execute_limit_orders(HookWorld, executor, current_price, now)
        post == Commit(HookWorld, r)
    IN /\ Len(post.limit.orders) = Len(limitBook.orders)
       /\ \A i \in 1..Len(limitBook.orders) :
            IF i \in Eligible(current_price)
            THEN /\ post.limit.orders[i] = [limitBook.orders[i] EXCEPT !.filled = TRUE]
                 /\ Cardinality({k \in 1..Len(r.w.events) :
                                   r.w.events[k].order_id = limitBook.orders[i].order_id}) = 1
            ELSE post.limit.orders[i] = limitBook.orders[i]
       /\ r.status = OK => Len(r.w.events) = Cardinality(Eligible(current_price))

\* in a step an order stays in place, a filled order stays filled and is not
\* reported again
FilledIsFinal ==
  \A i \in 1..Len(limitBook.orders) :
    /\ i <= Len(limitBook'.orders)
    /\ limitBook'.orders[i].order_id = limitBook.orders[i].order_id
    /\ limitBook.orders[i].filled =>
         /\ limitBook'.orders[i].filled
         /\ \A k \in 1..Len(emitted') :
              emitted'[k].type = "LimitOrderFilled"
                => emitted'[k].order_id # limitBook.orders[i].order_id

\* the ids of the orders in the book are pairwise distinct
OrderIdsDistinct ==
  \A i, j \in 1..Len(limitBook.orders) :
    limitBook.orders[i].order_id = limitBook.orders[j].order_id => i = j

\* C23: limit orders fill at most once.  execute_limit_orders marks as filled,
\* and emits exactly one LimitOrderFilledEvent for, every order that is
\* unfilled, has trigger_price <= current_price and has expiry > now; the
\* other orders are left unchanged; a filled order never becomes unfilled
\* again and never produces a second fill event; order ids are pairwise
\* distinct.
C23_LimitOrdersFillOnce ==
  /\ [](ExecuteFillsEligible /\ OrderIdsDistinct)
  /\ [][FilledIsFinal]_vars

\* what execute_twap_interval does to the order at vector index i (from 0)
TwapGate ==
  \A executor \in Addrs, i \in OrderIndices :
    LET r == execute_twap_interval(HookWorld, executor, i, now) IN
    /\ r.status = OK =>
         LET before == twapBook.orders[i + 1]
             after == r.w.twap.orders[i + 1]
         IN /\ now >= before.last_execution + before.interval_seconds
            /\ after.intervals_remaining = before.intervals_remaining - 1
            /\ after.last_execution = now
            /\ after = [before EXCEPT !.intervals_remaining = @ - 1, !.last_execution = now]
            /\ Len(r.w.events) = 1
    /\ (i < Len(twapBook.orders) /\ twapBook.orders[i + 1].intervals_remaining = 0)
         => (r.status # OK /\ Commit(HookWorld, r) = HookWorld)

\* in a step, an order is created with intervals_remaining = n >= 1, and the
\* intervals_remaining of an existing order changes only by one successful
\* execute_twap_interval of that order, which takes 1 off: an order created
\* with n intervals is executed at most n times
TwapCountsDown ==
  /\ \A i \in 1..Len(twapBook.orders) :
       /\ i <= Len(twapBook'.orders)
       /\ IF last'.op = "execute_twap_interval" /\ last'.arg = i - 1 /\ steps' # steps
          THEN /\ twapBook.orders[i].intervals_remaining > 0
               /\ twapBook'.orders[i].intervals_remaining
                    = twapBook.orders[i].intervals_remaining - 1
          ELSE twapBook'.orders[i] = twapBook.orders[i]
  /\ \A i \in (Len(twapBook.orders) + 1)..Len(twapBook'.orders) :
       /\ last'.op = "create_twap_order"
       /\ twapBook'.orders[i].intervals_remaining = last'.arg
       /\ last'.arg >= 1

\* C30: TWAP execution bound.  A TWAP order created with n >= 1 intervals is
\* executed successfully at most n times; each successful
\* execute_twap_interval requires now >= last_execution + interval_seconds,
\* decrements intervals_remaining by exactly 1 and sets last_execution to now;
\* once intervals_remaining is 0 every further execution of that order aborts
\* and changes nothing.
C30_TwapExecutionBound ==
  /\ []TwapGate
  /\ [][TwapCountsDown]_vars

\* an order of two intervals has been executed twice and refuses a third run
C30_Witness ==
  /\ last.op = "execute_twap_interval"
  /\ twapBook.orders[last.arg + 1].intervals_remaining = 0
  /\ emitted[1].interval_number = 2
  /\ \A executor \in Addrs :
       execute_twap_interval(HookWorld, executor, last.arg, now).status = E_ORDER_NOT_FOUND

====
